---- MODULE Spec2Model ----
(***************************************************************************)
(* The error screen of vsthakur101/portal (the Error component): its view  *)
(* state, its event handlers, the deferred callbacks they schedule, and    *)
(* the texts they build (JSON report, issue URL, clipboard summary).       *)
(*                                                                         *)
(* A JavaScript string is a sequence of one-character strings; the code    *)
(* units U+00E9 and U+0060 are the atoms Eacute and Backtick.              *)
(***************************************************************************)
EXTENDS Integers, Sequences, FiniteSets, TLC

VARIABLES
    error,                 \* props.error: [name, message, stack, digest]
    userAgent,             \* navigator.userAgent
    href,                  \* window.location.href
    secureContext,         \* navigator.clipboard is defined
    html2canvas,           \* 'html2canvas' in window
    showStackTrace,        \* useState(false)
    copied,                \* useState(false)
    screenshot,            \* useState<string | null>(null)
    userReport,            \* useState('')
    selStart,              \* textarea.selectionStart
    selEnd,                \* textarea.selectionEnd
    cursorTimers,          \* pending setTimeout(..., 0) callbacks: their cursor argument
    copyTimers,            \* pending setTimeout(() => setCopied(false), 2000) callbacks
    clipboardWrites,       \* navigator.clipboard.writeText promises still pending
    clipboard,             \* the text on the system clipboard
    unhandledRejections,   \* rejected handler promises nobody caught
    copyClicks,            \* clicks on the copy button so far
    objectUrls,            \* object URLs created and not yet revoked
    blobCount,             \* object URLs created so far
    download,              \* the last file handed to the browser: [href, name, content]
    opened                 \* the last URL given to window.open

vars == <<error, userAgent, href, secureContext, html2canvas, showStackTrace, copied,
          screenshot, userReport, selStart, selEnd, cursorTimers, copyTimers,
          clipboardWrites, clipboard, unhandledRejections, copyClicks, objectUrls,
          blobCount, download, opened>>

(***************************************************************************)
(* Bounds of the model.                                                    *)
(***************************************************************************)
MaxTextLen == 1      \* longest error message drawn
MaxClock == 1        \* Date.now() ranges over 0..MaxClock
MaxDownloads == 2    \* downloads per run
MaxBufLen == 2       \* longest user report the user types / formats from
MaxPending == 1      \* deferred cursor callbacks pending at once
MaxCopies == 2       \* clicks on the copy button per run

(***************************************************************************)
(* JavaScript values.                                                      *)
(***************************************************************************)
Eacute == "U+00E9"
Backtick == "U+0060"
Undefined == <<"(undefined)">>      \* not a string: no character is this atom
Null == <<"(null)">>

\* the concatenation of a sequence of strings (by halves)
RECURSIVE Concat(_)
Concat(ss) ==
    IF Len(ss) = 0 THEN <<>>
    ELSE IF Len(ss) = 1 THEN ss[1]
    ELSE Concat(SubSeq(ss, 1, Len(ss) \div 2)) \o Concat(SubSeq(ss, Len(ss) \div 2 + 1, Len(ss)))

\* x ?? y in place of x || y: the empty string is kept
NullishOr(x, y) == IF x = Undefined \/ x = Null THEN y ELSE x

\* x || y  on strings: the empty string, undefined and null are falsy
OrElse(x, y) == IF x = Undefined \/ x = Null \/ x = <<>> THEN y ELSE x

\* `${x}` in a template literal
Interpolate(x) == IF x = Undefined THEN <<"u","n","d","e","f","i","n","e","d">> ELSE x

\* String.prototype.substring(a, b) for 0 <= a <= b <= length
Substring(s, a, b) == SubSeq(s, a + 1, b)

TextsUpTo(A, n) == UNION {[1..k -> A] : k \in 0..n}

(***************************************************************************)
(* Number and date formatting.                                             *)
(***************************************************************************)
Digit(d) == <<"0","1","2","3","4","5","6","7","8","9">>[d + 1]

RECURSIVE ToDecimal(_)
ToDecimal(n) == IF n < 10 THEN <<Digit(n)>> ELSE ToDecimal(n \div 10) \o <<Digit(n % 10)>>

\* new Date(ms).toISOString() for an instant within the first second of the epoch
ToISOString(ms) ==
    <<"1","9","7","0","-","0","1","-","0","1","T","0","0",":","0","0",":","0","0",".">>
    \o <<Digit((ms \div 100) % 10), Digit((ms \div 10) % 10), Digit(ms % 10)>> \o <<"Z">>

(***************************************************************************)
(* JSON.stringify(value, null, 2).  A value is JUndefined, a string        *)
(* [t |-> "str", s |-> chars] or an object [t |-> "obj", m |-> members],   *)
(* members being a sequence of <<key, value>> pairs.                       *)
(***************************************************************************)
JUndefined == [t |-> "undefined"]
JStr(s) == IF s = Undefined THEN JUndefined ELSE [t |-> "str", s |-> s]
JObj(m) == [t |-> "obj", m |-> m]

\* an escaping that forgets the backslash
JsonEscapeQuotesOnly(c) ==
    CASE c = "\"" -> <<"\\", "\"">>
      [] c = "\n" -> <<"\\", "n">>
      [] OTHER -> <<c>>

JsonEscapeChar(c) ==
    CASE c = "\"" -> <<"\\", "\"">>
      [] c = "\\" -> <<"\\", "\\">>
      [] c = "\n" -> <<"\\", "n">>
      [] OTHER -> <<c>>

JsonEscape(s) == Concat([i \in 1..Len(s) |-> JsonEscapeChar(s[i])])

JsonQuote(s) == <<"\"">> \o JsonEscape(s) \o <<"\"">>

RECURSIVE Indent(_)
Indent(n) == IF n = 0 THEN <<>> ELSE <<" ">> \o Indent(n - 1)

\* the members JSON.stringify keeps: a property whose value is undefined is skipped
RECURSIVE Defined(_)
Defined(m) ==
    IF m = <<>> THEN <<>>
    ELSE IF Head(m)[2].t = "undefined" THEN Defined(Tail(m))
    ELSE <<Head(m)>> \o Defined(Tail(m))

RECURSIVE JsonValue(_, _), JsonMembers(_, _)
JsonValue(v, depth) ==
    IF v.t = "str" THEN JsonQuote(v.s)
    ELSE IF Defined(v.m) = <<>> THEN <<"{","}">>
    ELSE <<"{","\n">> \o JsonMembers(Defined(v.m), depth + 2) \o <<"\n">> \o Indent(depth) \o <<"}">>

JsonMembers(m, depth) ==
    Indent(depth) \o JsonQuote(Head(m)[1]) \o <<":"," ">> \o JsonValue(Head(m)[2], depth)
    \o (IF Tail(m) = <<>> THEN <<>> ELSE <<",","\n">> \o JsonMembers(Tail(m), depth))

JsonStringify(v) == JsonValue(v, 0)

(***************************************************************************)
(* encodeURIComponent.                                                     *)
(***************************************************************************)
Unreserved ==
    {"a","b","c","d","e","f","g","h","i","j","k","l","m","n","o","p","q","r","s","t",
     "u","v","w","x","y","z","A","B","C","D","E","F","G","H","I","J","K","L","M","N",
     "O","P","Q","R","S","T","U","V","W","X","Y","Z","0","1","2","3","4","5","6","7",
     "8","9","-","_",".","!","~","*","'","(",")"}

\* the code point of the characters the texts of this model use besides the unreserved ones
CodePoint(c) ==
    CASE c = "\n" -> 10
      [] c = " " -> 32
      [] c = "\"" -> 34
      [] c = "#" -> 35
      [] c = "%" -> 37
      [] c = "&" -> 38
      [] c = "+" -> 43
      [] c = "," -> 44
      [] c = "/" -> 47
      [] c = ":" -> 58
      [] c = ";" -> 59
      [] c = "=" -> 61
      [] c = "?" -> 63
      [] c = "\\" -> 92
      [] c = Backtick -> 96
      [] c = Eacute -> 233

Reserved == {"\n", " ", "\"", "#", "%", "&", "+", ",", "/", ":", ";", "=", "?", "\\", Backtick, Eacute}

Utf8(cp) == IF cp < 128 THEN <<cp>> ELSE <<192 + (cp \div 64), 128 + (cp % 64)>>

HexDigit(n) == <<"0","1","2","3","4","5","6","7","8","9","A","B","C","D","E","F">>[n + 1]

RECURSIVE PercentBytes(_)
PercentBytes(bs) ==
    IF bs = <<>> THEN <<>>
    ELSE <<"%", HexDigit(Head(bs) \div 16), HexDigit(Head(bs) % 16)>> \o PercentBytes(Tail(bs))

\* encodeURI in place of encodeURIComponent: the URI delimiters are kept
EncodeCharAsEncodeURI(c) ==
    IF c \in Unreserved \cup {";", "/", "?", ":", "@", "&", "=", "+", "$", ",", "#"}
    THEN <<c>>
    ELSE PercentBytes(Utf8(CodePoint(c)))

EncodeChar(c) == IF c \in Unreserved THEN <<c>> ELSE PercentBytes(Utf8(CodePoint(c)))

EncodeURIComponent(s) == Concat([i \in 1..Len(s) |-> EncodeChar(s[i])])

(***************************************************************************)
(* captureScreenshot                                                       *)
(***************************************************************************)
SimulatedScreenshot == <<"d","a","t","a",":","i","m","a","g","e","/","p","n","g",";","b","a","s","e","6","4",",","s","i","m","u","l","a","t","e","d","-","s","c","r","e","e","n","s","h","o","t">>

captureScreenshot ==
    /\ \/ /\ html2canvas
          /\ UNCHANGED screenshot
       \/ /\ ~html2canvas
          /\ screenshot' = SimulatedScreenshot
    /\ UNCHANGED <<error, userAgent, href, secureContext, html2canvas, showStackTrace,
                   copied, userReport, selStart, selEnd, cursorTimers, copyTimers,
                   clipboardWrites, clipboard, unhandledRejections, copyClicks,
                   objectUrls, blobCount, download, opened>>

(***************************************************************************)
(* downloadErrorReport                                                     *)
(***************************************************************************)
BuildReport(now) ==
    JObj(<< <<<<"t","i","m","e","s","t","a","m","p">>, JStr(ToISOString(now))>>,
            <<<<"e","r","r","o","r">>, JObj(<< <<<<"n","a","m","e">>, JStr(error.name)>>,
                                <<<<"m","e","s","s","a","g","e">>, JStr(error.message)>>,
                                <<<<"s","t","a","c","k">>, JStr(error.stack)>>,
                                <<<<"d","i","g","e","s","t">>, JStr(error.digest)>> >>)>>,
            <<<<"u","s","e","r","R","e","p","o","r","t">>, JStr(userReport)>>,
            <<<<"u","s","e","r","A","g","e","n","t">>, JStr(userAgent)>>,
            <<<<"u","r","l">>, JStr(href)>>,
            <<<<"s","c","r","e","e","n","s","h","o","t">>, JStr(OrElse(screenshot, <<"N","o"," ","s","c","r","e","e","n","s","h","o","t"," ","c","a","p","t","u","r","e","d">>))>> >>)

CreateObjectURL(urls, id) == urls \cup {id}

\* no revocation
RevokeNothing(urls, id) == urls

RevokeObjectURL(urls, id) == urls \ {id}

ObjectUrlText(id) == <<"b","l","o","b",":">> \o ToDecimal(id)

downloadErrorReport ==
    /\ blobCount < MaxDownloads
    /\ \E now \in 0..MaxClock :
         LET blob == JsonStringify(BuildReport(now))
             url == blobCount + 1
             a == [href |-> ObjectUrlText(url),
                   name |-> <<"e","r","r","o","r","-","r","e","p","o","r","t","-">> \o ToDecimal(now) \o <<".","j","s","o","n">>,
                   content |-> blob]
         IN /\ blobCount' = url
            /\ download' = <<a>>
            /\ objectUrls' = RevokeObjectURL(CreateObjectURL(objectUrls, url), url)
    /\ UNCHANGED <<error, userAgent, href, secureContext, html2canvas, showStackTrace,
                   copied, screenshot, userReport, selStart, selEnd, cursorTimers,
                   copyTimers, clipboardWrites, clipboard, unhandledRejections,
                   copyClicks, opened>>

(***************************************************************************)
(* createGithubIssue                                                       *)
(***************************************************************************)
IssueTitle == <<"E","r","r","o","r",":"," ">> \o Interpolate(error.message)

IssueBody(now) ==
    Concat(<< <<"#","#"," ","E","r","r","o","r"," ","R","e","p","o","r","t","\n","\n","*","*","E","r","r","o","r"," ","M","e","s","s","a","g","e",":","*","*"," ">>, Interpolate(error.message),
              <<"\n","\n","*","*","E","r","r","o","r"," ","T","y","p","e",":","*","*"," ">>, Interpolate(error.name),
              <<"\n","\n","*","*","D","i","g","e","s","t",":","*","*"," ">>, Interpolate(OrElse(error.digest, <<"N","/","A">>)),
              <<"\n","\n","*","*","U","s","e","r"," ","R","e","p","o","r","t",":","*","*","\n">>,
              Interpolate(OrElse(userReport, <<"N","o"," ","a","d","d","i","t","i","o","n","a","l"," ","i","n","f","o","r","m","a","t","i","o","n"," ","p","r","o","v","i","d","e","d">>)),
              <<"\n","\n","*","*","S","t","a","c","k"," ","T","r","a","c","e",":","*","*","\n",Backtick,Backtick,Backtick,"\n">>, Interpolate(error.stack),
              <<"\n",Backtick,Backtick,Backtick,"\n","\n","*","*","E","n","v","i","r","o","n","m","e","n","t",":","*","*","\n","-"," ","U","R","L",":"," ">>, Interpolate(href),
              <<"\n","-"," ","U","s","e","r"," ","A","g","e","n","t",":"," ">>, Interpolate(userAgent),
              <<"\n","-"," ","T","i","m","e","s","t","a","m","p",":"," ">>, ToISOString(now),
              <<"\n","\n">>,
              IF screenshot # Null /\ screenshot # <<>>
              THEN <<"*","*","S","c","r","e","e","n","s","h","o","t",":","*","*"," ","A","t","t","a","c","h","e","d"," ","s","e","p","a","r","a","t","e","l","y">>
              ELSE <<"*","*","S","c","r","e","e","n","s","h","o","t",":","*","*"," ","N","o","t"," ","c","a","p","t","u","r","e","d">> >>)

GithubUrl(now) ==
    Concat(<< <<"h","t","t","p","s",":","/","/","g","i","t","h","u","b",".","c","o","m","/","v","s","t","h","a","k","u","r","1","0","1","/","p","o","r","t","a","l","/","i","s","s","u","e","s","/","n","e","w","?","t","i","t","l","e","=">>,
              EncodeURIComponent(IssueTitle),
              <<"&","b","o","d","y","=">>,
              EncodeURIComponent(IssueBody(now)) >>)

createGithubIssue ==
    /\ \E now \in 0..MaxClock : opened' = <<GithubUrl(now)>>
    /\ UNCHANGED <<error, userAgent, href, secureContext, html2canvas, showStackTrace,
                   copied, screenshot, userReport, selStart, selEnd, cursorTimers,
                   copyTimers, clipboardWrites, clipboard, unhandledRejections,
                   copyClicks, objectUrls, blobCount, download>>

(***************************************************************************)
(* copyToClipboard: the click runs it up to the await; it resumes when the *)
(* clipboard write settles; the timer it sets fires later.                 *)
(***************************************************************************)
CopyText ==
    Concat(<< <<"E","r","r","o","r",":"," ">>, Interpolate(error.message), <<"\n","\n","S","t","a","c","k"," ","T","r","a","c","e",":","\n">>,
              Interpolate(error.stack) >>)

\* the click: navigator.clipboard.writeText(text) is called; where navigator.clipboard
\* is undefined the call throws inside the async function, whose promise is rejected
copyToClipboard ==
    /\ copyClicks < MaxCopies
    /\ copyClicks' = copyClicks + 1
    /\ \/ /\ secureContext
          /\ clipboardWrites' = clipboardWrites + 1
          /\ UNCHANGED unhandledRejections
       \/ /\ ~secureContext
          /\ unhandledRejections' = unhandledRejections + 1
          /\ UNCHANGED clipboardWrites
    /\ UNCHANGED <<error, userAgent, href, secureContext, html2canvas, showStackTrace,
                   copied, screenshot, userReport, selStart, selEnd, cursorTimers,
                   copyTimers, clipboard, objectUrls, blobCount, download, opened>>

\* the write is fulfilled and no reset timer is set
copyToClipboardFulfilledNoTimer ==
    /\ clipboardWrites > 0
    /\ clipboardWrites' = clipboardWrites - 1
    /\ clipboard' = <<CopyText>>
    /\ copied' = TRUE
    /\ UNCHANGED <<error, userAgent, href, secureContext, html2canvas, showStackTrace,
                   screenshot, userReport, selStart, selEnd, cursorTimers, copyTimers,
                   unhandledRejections, copyClicks, objectUrls, blobCount, download,
                   opened>>

\* the write is fulfilled: setCopied(true); setTimeout(() => setCopied(false), 2000)
copyToClipboardFulfilled ==
    /\ clipboardWrites > 0
    /\ clipboardWrites' = clipboardWrites - 1
    /\ clipboard' = <<CopyText>>
    /\ copied' = TRUE
    /\ copyTimers' = copyTimers + 1
    /\ UNCHANGED <<error, userAgent, href, secureContext, html2canvas, showStackTrace,
                   screenshot, userReport, selStart, selEnd, cursorTimers,
                   unhandledRejections, copyClicks, objectUrls, blobCount, download,
                   opened>>

\* the write is rejected and the indicator is set all the same
copyToClipboardRejectedButCopied ==
    /\ clipboardWrites > 0
    /\ clipboardWrites' = clipboardWrites - 1
    /\ unhandledRejections' = unhandledRejections + 1
    /\ copied' = TRUE
    /\ copyTimers' = copyTimers + 1
    /\ UNCHANGED <<error, userAgent, href, secureContext, html2canvas, showStackTrace,
                   screenshot, userReport, selStart, selEnd, cursorTimers, clipboard,
                   copyClicks, objectUrls, blobCount, download, opened>>

\* the write is rejected: the await throws, nothing catches it
copyToClipboardRejected ==
    /\ clipboardWrites > 0
    /\ clipboardWrites' = clipboardWrites - 1
    /\ unhandledRejections' = unhandledRejections + 1
    /\ UNCHANGED <<error, userAgent, href, secureContext, html2canvas, showStackTrace,
                   copied, screenshot, userReport, selStart, selEnd, cursorTimers,
                   copyTimers, clipboard, copyClicks, objectUrls, blobCount, download,
                   opened>>

\* () => setCopied(false), 2000 ms after a fulfilled write; equal delays fire in order
copiedTimeout ==
    /\ copyTimers > 0
    /\ copyTimers' = copyTimers - 1
    /\ copied' = FALSE
    /\ UNCHANGED <<error, userAgent, href, secureContext, html2canvas, showStackTrace,
                   screenshot, userReport, selStart, selEnd, cursorTimers,
                   clipboardWrites, clipboard, unhandledRejections, copyClicks,
                   objectUrls, blobCount, download, opened>>

(***************************************************************************)
(* The stack trace toggle.                                                 *)
(***************************************************************************)
toggleStackTrace ==
    /\ showStackTrace' = ~showStackTrace
    /\ UNCHANGED <<error, userAgent, href, secureContext, html2canvas, copied,
                   screenshot, userReport, selStart, selEnd, cursorTimers, copyTimers,
                   clipboardWrites, clipboard, unhandledRejections, copyClicks,
                   objectUrls, blobCount, download, opened>>

(***************************************************************************)
(* The user report textarea: the user selects, types and deletes; each     *)
(* edit reaches onChange, which stores the textarea's value.               *)
(***************************************************************************)
TypedChars == {"a"}

Min(a, b) == IF a <= b THEN a ELSE b

\* the values and carets one key press can leave in the textarea
Edits ==
    {[value |-> Substring(userReport, 0, selStart) \o <<c>>
                \o Substring(userReport, selEnd, Len(userReport)),
      caret |-> selStart + 1] : c \in IF Len(userReport) < MaxBufLen THEN TypedChars ELSE {}}
    \cup (IF selStart < selEnd
          THEN {[value |-> Substring(userReport, 0, selStart)
                           \o Substring(userReport, selEnd, Len(userReport)),
                 caret |-> selStart]}
          ELSE IF selStart > 0
          THEN {[value |-> Substring(userReport, 0, selStart - 1)
                           \o Substring(userReport, selStart, Len(userReport)),
                 caret |-> selStart - 1]}
          ELSE {})

onChange ==
    /\ \E e \in Edits :
         /\ userReport' = e.value
         /\ selStart' = e.caret
         /\ selEnd' = e.caret
    /\ UNCHANGED <<error, userAgent, href, secureContext, html2canvas, showStackTrace,
                   copied, screenshot, cursorTimers, copyTimers, clipboardWrites,
                   clipboard, unhandledRejections, copyClicks, objectUrls, blobCount,
                   download, opened>>

select ==
    /\ \E s \in 0..Len(userReport) : \E e \in s..Len(userReport) :
         /\ <<s, e>> # <<selStart, selEnd>>
         /\ selStart' = s
         /\ selEnd' = e
    /\ UNCHANGED <<error, userAgent, href, secureContext, html2canvas, showStackTrace,
                   copied, screenshot, userReport, cursorTimers, copyTimers,
                   clipboardWrites, clipboard, unhandledRejections, copyClicks,
                   objectUrls, blobCount, download, opened>>

(***************************************************************************)
(* insertFormatting and the cursor callback it defers.                     *)
(***************************************************************************)
Formats == {"bold", "italic", "code", "list"}

OtherFormats == {"underline"}

FormatText(format, selectedText) ==
    CASE format = "bold" -> <<"*","*">> \o selectedText \o <<"*","*">>
      [] format = "italic" -> <<"*">> \o selectedText \o <<"*">>
      [] format = "code" -> <<Backtick>> \o selectedText \o <<Backtick>>
      [] format = "list" -> <<"-"," ">> \o selectedText
      [] OTHER -> <<>>

NewText(start, end, formattedText) ==
    Substring(userReport, 0, start) \o formattedText
    \o Substring(userReport, end, Len(userReport))

\* the cursor put after the old selection end
CursorAfterSelectionEnd(start, end, formattedText) == end + Len(formattedText)

CursorPosition(start, end, formattedText) == start + Len(formattedText)

\* the re-render writes a changed value into the textarea, which puts the caret at its end
insertFormatting(format) ==
    /\ Len(userReport) <= MaxBufLen
    /\ Len(cursorTimers) < MaxPending
    /\ LET start == selStart
           end == selEnd
           formattedText == FormatText(format, Substring(userReport, start, end))
           newText == NewText(start, end, formattedText)
       IN  /\ userReport' = newText
           /\ cursorTimers' = Append(cursorTimers, CursorPosition(start, end, formattedText))
           /\ IF newText # userReport
              THEN selStart' = Len(newText) /\ selEnd' = Len(newText)
              ELSE UNCHANGED <<selStart, selEnd>>
    /\ UNCHANGED <<error, userAgent, href, secureContext, html2canvas, showStackTrace,
                   copied, screenshot, copyTimers, clipboardWrites, clipboard,
                   unhandledRejections, copyClicks, objectUrls, blobCount, download,
                   opened>>

\* textarea.setSelectionRange(pos, pos): the textarea keeps the range within its value
SetSelectionRange(pos) == Min(pos, Len(userReport))

cursorCallback ==
    /\ cursorTimers # <<>>
    /\ cursorTimers' = Tail(cursorTimers)
    /\ selStart' = SetSelectionRange(Head(cursorTimers))
    /\ selEnd' = SetSelectionRange(Head(cursorTimers))
    /\ UNCHANGED <<error, userAgent, href, secureContext, html2canvas, showStackTrace,
                   copied, screenshot, userReport, copyTimers, clipboardWrites,
                   clipboard, unhandledRejections, copyClicks, objectUrls, blobCount,
                   download, opened>>

(***************************************************************************)
(* The report functions on drawn inputs: an error descriptor, a user       *)
(* report and a screenshot state are drawn, then the download and issue    *)
(* buttons are clicked in any order.                                       *)
(***************************************************************************)
JsonAlphabet == {"a", "\"", "\\", "\n"}

Messages == TextsUpTo(JsonAlphabet, MaxTextLen)

Stacks == {Undefined, <<"E",":"," ","a","\n"," "," ","a","t"," ","f"," ","(","x",".","j","s",":","1",")">>, <<"\\", "\"", "&", "%", "=", Eacute, Backtick, "+">>}

Digests == {Undefined, <<>>, <<"d","1","&","x","=","%">>}

UserReports == {<<>>, <<"*", "\"", "\n", "#", "\\", "n", Eacute>>}

\* every message with one stack, and every stack and digest with one message
Descriptors ==
    [name : {<<"T","y","p","e","E","r","r","o","r">>}, message : Messages, stack : {<<"E",":"," ","a","\n"," "," ","a","t"," ","f"," ","(","x",".","j","s",":","1",")">>},
     digest : {Undefined}]
    \cup [name : {<<"T","y","p","e","E","r","r","o","r">>}, message : {<<"b","o","o","m"," ","&","=">>}, stack : Stacks, digest : Digests]

InitEnv ==
    /\ userAgent = <<"U","A","/","5",".","0"," ","(","X","1","1",";"," ","L","i","n","u","x",")">>
    /\ href = <<"h","t","t","p",":","/","/","h","/","a","?","b","=","c","&","d","=","%","2","0","#","e">>

InitView ==
    /\ showStackTrace = FALSE
    /\ copied = FALSE
    /\ screenshot = Null
    /\ userReport = <<>>
    /\ selStart = 0
    /\ selEnd = 0
    /\ cursorTimers = <<>>
    /\ copyTimers = 0
    /\ clipboardWrites = 0
    /\ clipboard = <<>>
    /\ unhandledRejections = 0
    /\ copyClicks = 0
    /\ objectUrls = {}
    /\ blobCount = 0
    /\ download = <<>>
    /\ opened = <<>>

\* the view as mounted, except that the user report already holds a drawn text
InitReport ==
    /\ error \in Descriptors
    /\ InitEnv
    /\ secureContext = TRUE
    /\ html2canvas = FALSE
    /\ showStackTrace = FALSE
    /\ copied = FALSE
    /\ screenshot \in {Null, SimulatedScreenshot}
    /\ userReport \in UserReports
    /\ selStart = Len(userReport)
    /\ selEnd = Len(userReport)
    /\ cursorTimers = <<>>
    /\ copyTimers = 0
    /\ clipboardWrites = 0
    /\ clipboard = <<>>
    /\ unhandledRejections = 0
    /\ copyClicks = 0
    /\ objectUrls = {}
    /\ blobCount = 0
    /\ download = <<>>
    /\ opened = <<>>

NextReport ==
    \/ downloadErrorReport
    \/ createGithubIssue

SpecReport == InitReport /\ [][NextReport]_vars

(***************************************************************************)
(* The mounted view: the copy button, its clipboard write and its timer,   *)
(* with the stack trace toggle, the screenshot button and typing.          *)
(***************************************************************************)
TheError ==
    [name |-> <<"T","y","p","e","E","r","r","o","r">>, message |-> <<"b","o","o","m">>, stack |-> <<"E",":"," ","a","\n"," "," ","a","t"," ","f"," ","(","x",".","j","s",":","1",")">>,
     digest |-> Undefined]

Init ==
    /\ error = TheError
    /\ InitEnv
    /\ secureContext \in BOOLEAN
    /\ html2canvas \in BOOLEAN
    /\ InitView

Next ==
    \/ copyToClipboard
    \/ copyToClipboardFulfilled
    \/ copyToClipboardRejected
    \/ copiedTimeout
    \/ toggleStackTrace
    \/ captureScreenshot
    \/ onChange

Spec == Init /\ [][Next]_vars

\* a pending timer fires
FairSpec == Spec /\ WF_vars(copiedTimeout)

(***************************************************************************)
(* The editor: selecting, typing, the formatting toolbar and the deferred  *)
(* cursor callbacks.                                                       *)
(***************************************************************************)
InitEdit ==
    /\ error = TheError
    /\ InitEnv
    /\ secureContext = TRUE
    /\ html2canvas = FALSE
    /\ InitView

NextEdit ==
    \/ select
    \/ onChange
    \/ \E format \in Formats : insertFormatting(format)
    \/ cursorCallback

SpecEdit == InitEdit /\ [][NextEdit]_vars

(***************************************************************************)
(* insertFormatting as a function: a buffer and a selection are drawn and  *)
(* it is called with any style, the toolbar's or another.                  *)
(***************************************************************************)
InitFmt ==
    /\ error = TheError
    /\ InitEnv
    /\ secureContext = TRUE
    /\ html2canvas = FALSE
    /\ showStackTrace = FALSE
    /\ copied = FALSE
    /\ screenshot = Null
    /\ userReport \in TextsUpTo({"a", "b"}, MaxBufLen)
    /\ selStart \in 0..Len(userReport)
    /\ selEnd \in selStart..Len(userReport)
    /\ cursorTimers = <<>>
    /\ copyTimers = 0
    /\ clipboardWrites = 0
    /\ clipboard = <<>>
    /\ unhandledRejections = 0
    /\ copyClicks = 0
    /\ objectUrls = {}
    /\ blobCount = 0
    /\ download = <<>>
    /\ opened = <<>>

NextFmt ==
    \/ \E format \in Formats \cup OtherFormats : insertFormatting(format)
    \/ cursorCallback

SpecFmt == InitFmt /\ [][NextFmt]_vars

(***************************************************************************)
(* Reading the outputs back: JSON.parse, decodeURIComponent and the query  *)
(* parameters of a URL.                                                    *)
(***************************************************************************)
At(t, i) == IF i >= 1 /\ i <= Len(t) THEN t[i] ELSE "(eof)"

JFail == [ok |-> FALSE, v |-> JUndefined, i |-> 0]

RECURSIVE SkipWs(_, _)
SkipWs(t, i) == IF At(t, i) \in {" ", "\n"} THEN SkipWs(t, i + 1) ELSE i

\* the backslashes that immediately precede position p, none of them before lo
RECURSIVE BackslashRun(_, _, _)
BackslashRun(t, lo, p) ==
    IF p - 1 >= lo /\ t[p - 1] = "\\" THEN 1 + BackslashRun(t, lo, p - 1) ELSE 0

\* the closing quote of the string literal whose body starts at lo: the first quote
\* from j on that no backslash escapes (0 if there is none)
RECURSIVE ClosingQuote(_, _, _)
ClosingQuote(t, lo, j) ==
    IF j > Len(t) THEN 0
    ELSE IF t[j] = "\"" /\ BackslashRun(t, lo, j) % 2 = 0 THEN j
    ELSE ClosingQuote(t, lo, j + 1)

\* the character(s) position p of a string literal's body stands for
UnescapeAt(t, lo, p) ==
    IF t[p] = "\\" /\ BackslashRun(t, lo, p) % 2 = 0 THEN <<>>
    ELSE IF BackslashRun(t, lo, p) % 2 = 0 THEN <<t[p]>>
    ELSE IF t[p] \in {"\"", "\\", "/"} THEN <<t[p]>>
    ELSE IF t[p] = "n" THEN <<"\n">>
    ELSE <<"(SyntaxError)">>

\* the string literal whose opening quote is at i - 1
ParseChars(t, i) ==
    LET j == ClosingQuote(t, i, i)
        body == Concat([p \in 1..(j - i) |-> UnescapeAt(t, i, i + p - 1)])
    IN  IF j = 0 THEN JFail
        ELSE IF \E p \in i..(j - 1) : t[p] = "\n" THEN JFail
        ELSE IF "(SyntaxError)" \in {body[p] : p \in 1..Len(body)} THEN JFail
        ELSE [ok |-> TRUE, v |-> [t |-> "str", s |-> body], i |-> j + 1]

RECURSIVE ParseValue(_, _), ParseMember(_, _, _)
ParseValue(t, i) ==
    LET j == SkipWs(t, i)
    IN  IF At(t, j) = "\"" THEN ParseChars(t, j + 1)
        ELSE IF At(t, j) = "{"
             THEN IF At(t, SkipWs(t, j + 1)) = "}"
                  THEN [ok |-> TRUE, v |-> JObj(<<>>), i |-> SkipWs(t, j + 1) + 1]
                  ELSE ParseMember(t, SkipWs(t, j + 1), <<>>)
        ELSE JFail

ParseMember(t, k, acc) ==
    IF At(t, k) # "\"" THEN JFail
    ELSE LET key == ParseChars(t, k + 1)
         IN  IF ~key.ok \/ At(t, SkipWs(t, key.i)) # ":" THEN JFail
             ELSE LET val == ParseValue(t, SkipWs(t, key.i) + 1)
                      m == Append(acc, <<key.v.s, val.v>>)
                      n == SkipWs(t, val.i)
                  IN  IF ~val.ok THEN JFail
                      ELSE IF At(t, n) = "," THEN ParseMember(t, SkipWs(t, n + 1), m)
                      ELSE IF At(t, n) = "}" THEN [ok |-> TRUE, v |-> JObj(m), i |-> n + 1]
                      ELSE JFail

\* JSON.parse; a text that is not JSON gives [t |-> "SyntaxError"]
JsonParse(t) ==
    LET r == ParseValue(t, 1)
    IN  IF r.ok /\ SkipWs(t, r.i) = Len(t) + 1 THEN r.v ELSE [t |-> "SyntaxError"]

\* value.key of a parsed value
RECURSIVE Lookup(_, _)
Lookup(m, key) ==
    IF m = <<>> THEN JUndefined
    ELSE IF m[Len(m)][1] = key THEN m[Len(m)][2]
    ELSE Lookup(SubSeq(m, 1, Len(m) - 1), key)

Get(v, key) == IF v.t = "obj" THEN Lookup(v.m, key) ELSE JUndefined

HexValue(c) ==
    CASE c = "0" -> 0 [] c = "1" -> 1 [] c = "2" -> 2 [] c = "3" -> 3
      [] c = "4" -> 4 [] c = "5" -> 5 [] c = "6" -> 6 [] c = "7" -> 7
      [] c = "8" -> 8 [] c = "9" -> 9 [] c = "A" -> 10 [] c = "B" -> 11
      [] c = "C" -> 12 [] c = "D" -> 13 [] c = "E" -> 14 [] c = "F" -> 15
      [] OTHER -> -1

CharOf(cp) ==
    LET cs == {c \in Reserved : CodePoint(c) = cp}
    IN  IF cs = {} THEN "(?)" ELSE CHOOSE c \in cs : TRUE

ByteAt(t, i) ==
    LET hi == HexValue(At(t, i + 1))
        lo == HexValue(At(t, i + 2))
    IN  IF At(t, i) = "%" /\ hi >= 0 /\ lo >= 0 THEN 16 * hi + lo ELSE -1

\* the character(s) position i of an encoded text stands for
DecodeAt(t, i) ==
    IF t[i] # "%"
    THEN IF At(t, i - 1) = "%" \/ At(t, i - 2) = "%" THEN <<>> ELSE <<t[i]>>
    ELSE LET b == ByteAt(t, i)
         IN  IF b >= 0 /\ b < 128 THEN <<CharOf(b)>>
             ELSE IF b >= 128 /\ b < 192
                  THEN IF ByteAt(t, i - 3) >= 192 /\ ByteAt(t, i - 3) < 224 THEN <<>>
                       ELSE <<"(URIError)">>
             ELSE IF b >= 192 /\ b < 224 /\ ByteAt(t, i + 3) >= 128 /\ ByteAt(t, i + 3) < 192
                  THEN <<CharOf((b - 192) * 64 + (ByteAt(t, i + 3) - 128))>>
             ELSE <<"(URIError)">>

DecodeURIComponent(t) == Concat([i \in 1..Len(t) |-> DecodeAt(t, i)])

IsAt(t, i, pat) == i >= 1 /\ i + Len(pat) - 1 <= Len(t) /\ SubSeq(t, i, i + Len(pat) - 1) = pat

Contains(t, pat) == \E i \in 1..(Len(t) + 1) : IsAt(t, i, pat)

StartsWith(t, pat) == IsAt(t, 1, pat)

\* the decoded value of the query parameter introduced by mark ("?title=" or "&body=")
QueryParam(url, mark) ==
    IF ~Contains(url, mark) THEN <<"(missing)">>
    ELSE LET from == (CHOOSE i \in 1..Len(url) :
                          IsAt(url, i, mark) /\ \A j \in 1..(i - 1) : ~IsAt(url, j, mark))
                      + Len(mark)
             ends == {j \in from..Len(url) : url[j] \in {"&", "#"}} \cup {Len(url) + 1}
             to == CHOOSE j \in ends : \A k \in ends : j <= k
         IN  DecodeURIComponent(SubSeq(url, from, to - 1))

(***************************************************************************)
(* Claims about the report functions (SpecReport).                         *)
(***************************************************************************)
ParsedReport == JsonParse(download[1].content)

IssueBodyOpened == QueryParam(opened[1], <<"&","b","o","d","y","=">>)

\* the text of the body between the first `from` and the next `to`
Between(t, from, to) ==
    IF ~Contains(t, from) THEN <<"(missing)">>
    ELSE LET a == (CHOOSE i \in 1..Len(t) :
                       IsAt(t, i, from) /\ \A j \in 1..(i - 1) : ~IsAt(t, j, from))
                  + Len(from)
             bs == {j \in a..Len(t) : IsAt(t, j, to)}
         IN  IF bs = {} THEN <<"(missing)">>
             ELSE SubSeq(t, a, (CHOOSE j \in bs : \A k \in bs : j <= k) - 1)

IssueDigest == Between(IssueBodyOpened, <<"\n","\n","*","*","D","i","g","e","s","t",":","*","*"," ">>, <<"\n","\n","*","*","U","s","e","r"," ","R","e","p","o","r","t",":","*","*","\n">>)

\* C3: every object URL downloadErrorReport creates is revoked within the same
\* invocation: in every reachable state no created object URL is still live.
C3_NoObjectUrlLeak == objectUrls = {}

C3_Witness == blobCount >= 2 /\ download # <<>> /\ objectUrls = {}

\* C6 as stated: without a digest the issue body shows N/A and the JSON report has no
\* digest; with a digest (any string) both outputs carry that digest value.
C6_DigestAsStated ==
    /\ opened # <<>> =>
         IssueDigest = (IF error.digest = Undefined THEN <<"N","/","A">> ELSE error.digest)
    /\ download # <<>> => Get(Get(ParsedReport, <<"e","r","r","o","r">>), <<"d","i","g","e","s","t">>) = JStr(error.digest)

\* C6 amended: the issue body shows N/A when the digest is absent or the empty string
\* and the digest otherwise; the JSON report has no digest key when the digest is
\* absent and carries the digest string, the empty one included, otherwise.
C6_DigestAmended ==
    /\ opened # <<>> =>
         IssueDigest = (IF error.digest \in {Undefined, <<>>} THEN <<"N","/","A">> ELSE error.digest)
    /\ download # <<>> =>
         /\ Get(Get(ParsedReport, <<"e","r","r","o","r">>), <<"d","i","g","e","s","t">>) = JStr(error.digest)
         /\ error.digest = Undefined => ~Contains(download[1].content, <<"\"","d","i","g","e","s","t","\"">>)

C6_Witness == opened # <<>> /\ download # <<>> /\ error.digest = Undefined

\* C7: the JSON text downloadErrorReport hands to the browser parses back to a record
\* whose error name, message, stack, digest, userReport, userAgent and url are the
\* inputs (an undefined input reads back as undefined).
C7_RoundTrip ==
    download # <<>> =>
        LET r == ParsedReport
            e == Get(r, <<"e","r","r","o","r">>)
        IN  /\ r.t = "obj"
            /\ e.t = "obj"
            /\ Get(e, <<"n","a","m","e">>) = JStr(error.name)
            /\ Get(e, <<"m","e","s","s","a","g","e">>) = JStr(error.message)
            /\ Get(e, <<"s","t","a","c","k">>) = JStr(error.stack)
            /\ Get(e, <<"d","i","g","e","s","t">>) = JStr(error.digest)
            /\ Get(r, <<"u","s","e","r","R","e","p","o","r","t">>) = JStr(userReport)
            /\ Get(r, <<"u","s","e","r","A","g","e","n","t">>) = JStr(userAgent)
            /\ Get(r, <<"u","r","l">>) = JStr(href)

C7_Witness ==
    /\ download # <<>>
    /\ error.stack = <<"\\", "\"", "&", "%", "=", Eacute, Backtick, "+">>
    /\ error.digest = Undefined
    /\ userReport # <<>>
    /\ screenshot # Null

\* C8: the decoded body parameter of the URL createGithubIssue opens begins with the
\* template's Error Message section holding the message unmodified, and its Stack
\* Trace section holds the stack text unmodified inside the code fence.
C8_IssueBodyLiteral ==
    opened # <<>> =>
        LET body == IssueBodyOpened
        IN  /\ StartsWith(body,
                          Concat(<< <<"#","#"," ","E","r","r","o","r"," ","R","e","p","o","r","t","\n","\n","*","*","E","r","r","o","r"," ","M","e","s","s","a","g","e",":","*","*"," ">>, error.message,
                                    <<"\n","\n","*","*","E","r","r","o","r"," ","T","y","p","e",":","*","*"," ">> >>))
            /\ error.stack # Undefined =>
                 Contains(body,
                          Concat(<< <<"\n","\n","*","*","S","t","a","c","k"," ","T","r","a","c","e",":","*","*","\n",Backtick,Backtick,Backtick,"\n">>, error.stack,
                                    <<"\n",Backtick,Backtick,Backtick,"\n","\n","*","*","E","n","v","i","r","o","n","m","e","n","t",":","*","*","\n">> >>))

C8_Witness ==
    /\ opened # <<>>
    /\ error.message = <<"b","o","o","m"," ","&","=">>
    /\ error.stack = <<"\\", "\"", "&", "%", "=", Eacute, Backtick, "+">>

(***************************************************************************)
(* Claims about insertFormatting (SpecFmt, SpecEdit).                      *)
(***************************************************************************)
Wrapped(style, S) ==
    CASE style = "bold" -> <<"*", "*">> \o S \o <<"*", "*">>
      [] style = "italic" -> <<"*">> \o S \o <<"*">>
      [] style = "code" -> <<Backtick>> \o S \o <<Backtick>>
      [] style = "list" -> <<"-", " ">> \o S

Selected == SubSeq(userReport, selStart + 1, selEnd)

Prefix == SubSeq(userReport, 1, selStart)

Suffix == SubSeq(userReport, selEnd + 1, Len(userReport))

\* C1: a call of insertFormatting with one of the four styles on the selection
\* selStart..selEnd turns the buffer into prefix + T + suffix, T being the selected
\* text wrapped for the style, and the cursor it defers is selStart + length(T).
C1_InsertFormatting ==
    [][\A style \in Formats :
         insertFormatting(style) =>
            /\ userReport' = Prefix \o Wrapped(style, Selected) \o Suffix
            /\ cursorTimers'[Len(cursorTimers')] = selStart + Len(Wrapped(style, Selected))]_vars

\* bold on "ab" with "a" selected: "**a**b", cursor 5
C1_Witness == userReport = <<"*", "*", "a", "*", "*", "b">> /\ cursorTimers = <<5>>

\* C2: a call of insertFormatting with a style that is none of the four leaves the
\* buffer unchanged and defers the cursor position selStart.
C2_UnknownStyleIdentity ==
    [][\A style \in OtherFormats :
         insertFormatting(style) =>
            /\ userReport' = userReport
            /\ cursorTimers'[Len(cursorTimers')] = selStart]_vars

\* C10: when a deferred cursor callback runs, the position it applies is within
\* 0..length of the buffer current at that moment.
C10_DeferredCursorInRange ==
    [][Len(cursorTimers') < Len(cursorTimers) =>
         Head(cursorTimers) >= 0 /\ Head(cursorTimers) <= Len(userReport)]_vars

(***************************************************************************)
(* Claims about the copy button (Spec, FairSpec).                          *)
(***************************************************************************)
\* C4: a step in which the clipboard write fails leaves the copied indicator, the
\* pending reset timers, the stack trace visibility, the user report and the
\* screenshot as they were.
C4_RejectedWriteChangesNothing ==
    [][unhandledRejections' > unhandledRejections =>
         /\ copied' = copied
         /\ copyTimers' = copyTimers
         /\ showStackTrace' = showStackTrace
         /\ userReport' = userReport
         /\ screenshot' = screenshot]_vars

C4_Witness ==
    /\ secureContext
    /\ unhandledRejections > 0
    /\ ~copied
    /\ copyTimers = 0
    /\ clipboardWrites = 0
    /\ userReport # <<>>
    /\ screenshot # Null

\* C5: no operation of the error screen ends in an uncaught error or an unhandled
\* rejection.
C5_NoFailureEscapes == unhandledRejections = 0

\* C9: the copied indicator is true only while a reset timer is pending, and with
\* pending timers eventually firing the indicator always returns to false.
C9_CopiedResets == [](copied => copyTimers > 0) /\ (copied ~> ~copied)

C9_Witness == copied /\ copyTimers >= 2

====
